---- MODULE Spec2Model ----
(***************************************************************************)
(* Model of casteppy.data.interpolation.InterpolationData: reading the     *)
(* interpolation data of a .castep_bin file, the supercell image table     *)
(* and calculate_fine_phonons.                                             *)
(*                                                                         *)
(* Representation.  Python arrays are functions over 0..n-1 (the source's  *)
(* indices are kept); 3-vectors and the rows of 3x3 matrices are tuples.   *)
(* The list of q-points of a call and the per-q-point rows of freqs and    *)
(* eigenvecs are sequences (row q of the source is element q+1).           *)
(* Real numbers are exact: a fractional ion position is a numerator over   *)
(* the file's r_den, a q-point is given in quarter turns (so that every    *)
(* Bloch phase is a power of i), a complex number is a record              *)
(* [re, im, den] with value (re + i*im)/den and den = 0 for NaN, and a     *)
(* square root is kept as sign and radicand.  Floating-point rounding is   *)
(* not modelled.                                                           *)
(***************************************************************************)
EXTENDS Integers, Sequences, FiniteSets, TLC

VARIABLES file, solver, self, last, called

vars == <<file, solver, self, last, called>>

(***************************************************************************)
(* Integer and array helpers                                               *)
(***************************************************************************)
Abs(x) == IF x < 0 THEN -x ELSE x

Sign(x) == IF x < 0 THEN -1 ELSE IF x > 0 THEN 1 ELSE 0

RECURSIVE GcdNat(_, _)
GcdNat(a, b) == IF b = 0 THEN a ELSE GcdNat(b, a % b)

Gcd(a, b) == GcdNat(Abs(a), Abs(b))

\* Python's range(n)
Range(n) == 0 .. (n - 1)

\* len() of an array
ALen(a) == Cardinality(DOMAIN a)

\* The array a, evaluated once: TLC evaluates a function expression anew at
\* every application unless it has been compared
Array(a) == IF a = a THEN a ELSE a

\* the array holding the elements of a sequence
ArrayOf(s) == Array([k \in Range(Len(s)) |-> s[k + 1]])

RECURSIVE SumOver(_, _)
SumOver(f, n) == IF n = 0 THEN 0 ELSE f[n - 1] + SumOver(f, n - 1)

\* np.dot of two 3-vectors
Dot(u, v) == u[1] * v[1] + u[2] * v[2] + u[3] * v[3]

VAdd(u, v) == <<u[1] + v[1], u[2] + v[2], u[3] + v[3]>>

VSub(u, v) == <<u[1] - v[1], u[2] - v[2], u[3] - v[3]>>

VScale(k, v) == <<k * v[1], k * v[2], k * v[3]>>

\* np.transpose of a 3x3 matrix
Transpose(m) == <<<<m[1][1], m[2][1], m[3][1]>>,
                  <<m[1][2], m[2][2], m[3][2]>>,
                  <<m[1][3], m[2][3], m[3][3]>>>>

\* np.matmul(v, m) / np.dot(v, m) of a row vector and a 3x3 matrix
VecMat(v, m) == <<v[1] * m[1][1] + v[2] * m[2][1] + v[3] * m[3][1],
                  v[1] * m[1][2] + v[2] * m[2][2] + v[3] * m[3][2],
                  v[1] * m[1][3] + v[2] * m[2][3] + v[3] * m[3][3]>>

\* np.dot(m, v) of a 3x3 matrix and a vector
MatVec(m, v) == <<Dot(m[1], v), Dot(m[2], v), Dot(m[3], v)>>

\* np.matmul of two 3x3 matrices
MatMul(a, b) == <<VecMat(a[1], b), VecMat(a[2], b), VecMat(a[3], b)>>

\* np.linalg.det of a 3x3 integer matrix (exact)
Det(m) == m[1][1] * (m[2][2] * m[3][3] - m[2][3] * m[3][2])
        - m[1][2] * (m[2][1] * m[3][3] - m[2][3] * m[3][1])
        + m[1][3] * (m[2][1] * m[3][2] - m[2][2] * m[3][1])

\* the adjugate: np.linalg.inv(m) = Adj(m) / Det(m)
Adj(m) == <<<<m[2][2] * m[3][3] - m[2][3] * m[3][2],
              m[1][3] * m[3][2] - m[1][2] * m[3][3],
              m[1][2] * m[2][3] - m[1][3] * m[2][2]>>,
            <<m[2][3] * m[3][1] - m[2][1] * m[3][3],
              m[1][1] * m[3][3] - m[1][3] * m[3][1],
              m[1][3] * m[2][1] - m[1][1] * m[2][3]>>,
            <<m[2][1] * m[3][2] - m[2][2] * m[3][1],
              m[1][2] * m[3][1] - m[1][1] * m[3][2],
              m[1][1] * m[2][2] - m[1][2] * m[2][1]>>>>

(***************************************************************************)
(* Complex numbers (re + i*im)/den; den = 0 is NaN                         *)
(***************************************************************************)
CNaN == [re |-> 0, im |-> 0, den |-> 0]

CIsNaN(z) == z.den = 0

\* lowest terms, positive denominator
CNorm(re, im, den) ==
    IF den = 0 THEN CNaN
    ELSE LET g == Gcd(Gcd(re, im), den)
             s == IF den < 0 THEN -1 ELSE 1
         IN  [re |-> (s * re) \div g, im |-> (s * im) \div g, den |-> (s * den) \div g]

CInt(re, im) == [re |-> re, im |-> im, den |-> 1]

CZero == CInt(0, 0)

CAdd(x, y) == CNorm(x.re * y.den + y.re * x.den, x.im * y.den + y.im * x.den, x.den * y.den)

\* complex times a real integer
CScale(x, k) == CNorm(x.re * k, x.im * k, x.den)

\* complex divided by an integer; dividing by 0 gives NaN (numpy warns, does not raise)
CDiv(x, k) == CNorm(x.re, x.im, x.den * k)

CConj(x) == [x EXCEPT !.im = -x.im]

(***************************************************************************)
(* Input files.  A file is the content of the records that                  *)
(* _read_interpolation_data reads, in the order CASTEP writes them.         *)
(* ionic_positions[s][k] is the position of ion k of species s as          *)
(* numerators over r_den; force_con is the FORCE_CON force-constant record  *)
(* as the list of its (3*n_ions)x(3*n_ions) matrices, cell_origins the     *)
(* list of its rows.                                                       *)
(***************************************************************************)
Identity3 == <<<<1, 0, 0>>, <<0, 1, 0>>, <<0, 0, 1>>>>

DiagMat3(a, b, c) == <<<<a, 0, 0>>, <<0, b, 0>>, <<0, 0, c>>>>

\* a force-constant matrix of two ions: the given diagonal, nothing below it,
\* and u * (1 + row + column) above it
FcMatrix(d, u) ==
    [r \in Range(6) |-> [c \in Range(6) |->
        IF r = c THEN d[r + 1] ELSE IF r < c THEN u * (1 + r + c) ELSE 0]]

\* two species of one ion each, at (0,0,0) and (1/2,1/2,1/2) of a cubic cell
BaseFile ==
    [n_ions            |-> 2,
     real_lattice      |-> Identity3,
     n_species         |-> 2,
     n_ions_in_species |-> ArrayOf(<<1, 1>>),
     ionic_positions   |-> ArrayOf(<<ArrayOf(<<(<<0, 0, 0>>)>>), ArrayOf(<<(<<1, 1, 1>>)>>)>>),
     r_den             |-> 2,
     species_mass      |-> ArrayOf(<<1, 4>>),
     species_symbol    |-> ArrayOf(<<"Na", "Cl">>),
     sc_matrix         |-> Identity3,
     force_con         |-> ArrayOf(<<FcMatrix(<<2, 3, 1, 6, 4, 5>>, 1)>>),
     cell_origins      |-> ArrayOf(<<(<<0, 0, 0>>)>>)]

\* a 2x1x1 supercell; the second cell makes one eigenvalue negative at q = (1/2,0,0)
DoubleFile ==
    [BaseFile EXCEPT
        !.sc_matrix    = DiagMat3(2, 1, 1),
        !.force_con    = ArrayOf(<<FcMatrix(<<1, 2, 4, 5, 6, 7>>, 1),
                                   FcMatrix(<<3, 0, 0, 0, 0, 0>>, 2)>>),
        !.cell_origins = ArrayOf(<<(<<0, 0, 0>>), (<<1, 0, 0>>)>>)]

\* the second cell origin is given four supercells away from the reference cell
\* (the same cell modulo the supercell lattice): no image of an atom of that cell
\* lies within the search radius
FarFile == [DoubleFile EXCEPT !.cell_origins = ArrayOf(<<(<<0, 0, 0>>), (<<9, 0, 0>>)>>)]

\* a long supercell with more atoms than enumerated offsets
BigCells == 63

BigFile ==
    [BaseFile EXCEPT
        !.sc_matrix    = DiagMat3(BigCells, 1, 1),
        !.force_con    = [c \in Range(BigCells) |-> FcMatrix(<<1, 2, 3, 4, 5, 6>>, 0)],
        !.cell_origins = [c \in Range(BigCells) |-> <<c, 0, 0>>]]

\* a negative species mass
NegMassFile == [BaseFile EXCEPT !.species_mass = ArrayOf(<<1, -4>>)]

\* a singular supercell matrix
SingularFile == [BaseFile EXCEPT !.sc_matrix = DiagMat3(0, 1, 1)]

\* two cells in the supercell but one row of cell origins
OriginRowsFile == [DoubleFile EXCEPT !.cell_origins = ArrayOf(<<(<<0, 0, 0>>)>>)]

\* one species only
OneSpeciesFile ==
    [BaseFile EXCEPT
        !.n_species         = 1,
        !.n_ions_in_species = ArrayOf(<<2>>),
        !.ionic_positions   = ArrayOf(<<ArrayOf(<<(<<0, 0, 0>>), (<<1, 1, 1>>)>>)>>),
        !.species_mass      = ArrayOf(<<4>>),
        !.species_symbol    = ArrayOf(<<"Si">>)]

\* a sheared supercell of one cell: the supercell lattice vectors (1,1,0), (0,1,0),
\* (0,0,1) do not form a symmetric matrix
ShearFile == [BaseFile EXCEPT !.sc_matrix = <<<<1, 1, 0>>, <<0, 1, 0>>, <<0, 0, 1>>>>]

Files ==
    [base |-> BaseFile, double |-> DoubleFile, far |-> FarFile, big |-> BigFile,
     negmass |-> NegMassFile, singular |-> SingularFile,
     originrows |-> OriginRowsFile, onespecies |-> OneSpeciesFile, shear |-> ShearFile]

FileIds == DOMAIN Files

(***************************************************************************)
(* _read_interpolation_data                                                *)
(***************************************************************************)
\* read_entry: what a record of n_elems elements of the given dtype is read as
ReadEntry(dtype, n_elems) ==
    IF n_elems > 1 THEN "array"
    ELSE IF dtype \in {"i4", "f8"}
         THEN IF n_elems = 1 THEN "scalar" ELSE "struct.error"
         ELSE "UnboundLocalError"

\* np.reshape of a record read as an array of n_elems elements to a shape of the given size
ReshapeOk(kind, n_elems, size) ==
    IF kind = "array" THEN n_elems = size ELSE kind = "scalar" /\ size = 1

\* int(np.absolute(np.linalg.det(sc_matrix)))
NCellsInSc(sc_matrix) == Abs(Det(sc_matrix))

\* ion_begin[s] = np.insert(np.cumsum(n_ions_in_species[:-1]), 0, 0)[s]
IonBegin(n_ions_in_species, s) == SumOver(n_ions_in_species, s)

\* ion_end[s] = np.cumsum(n_ions_in_species)[s]
IonEnd(n_ions_in_species, s) == SumOver(n_ions_in_species, s + 1)

\* the species whose slice ion_begin[s]:ion_end[s] holds ion k
SpeciesOf(f, k) ==
    CHOOSE s \in Range(f.n_species) :
        IonBegin(f.n_ions_in_species, s) <= k /\ k < IonEnd(f.n_ions_in_species, s)

\* a quantity: its magnitude in atomic units and the units it is held in
Quantity(mag, units) == [mag |-> mag, units |-> units]

\* Quantity.ito(units): the same quantity, held in other units
Ito(q, units) == [q EXCEPT !.units = units]

\* Quantity.to(units): a copy in other units
To(q, units) == [q EXCEPT !.units = units]

\* The first error that reading the file raises, or "none"
ReadError(f) ==
    LET n3 == 3 * f.n_ions
        n_cells == NCellsInSc(f.sc_matrix)
        fc_elems == ALen(f.force_con) * n3 * n3
        fc_kind == ReadEntry("f8", fc_elems)
        or_elems == ALen(f.cell_origins) * 3
        or_kind == ReadEntry("i4", or_elems)
    IN  IF ReadEntry("i4", f.n_species) = "scalar" THEN "TypeError"
        ELSE IF fc_kind \notin {"array", "scalar"} THEN fc_kind
        ELSE IF ~ReshapeOk(fc_kind, fc_elems, n_cells * n3 * n3) THEN "ValueError"
        ELSE IF or_kind \notin {"array", "scalar"} THEN or_kind
        ELSE IF ~ReshapeOk(or_kind, or_elems, n_cells * 3) THEN "ValueError"
        ELSE "none"

\* The attributes that reading the file sets on the object
ReadInterpolationData(f) ==
    [n_ions          |-> f.n_ions,
     n_branches      |-> 3 * f.n_ions,
     cell_vec        |-> Ito(Quantity(Transpose(f.real_lattice), "bohr"), "angstrom"),
     ion_r           |-> [k \in Range(f.n_ions) |->
                            f.ionic_positions[SpeciesOf(f, k)]
                                [k - IonBegin(f.n_ions_in_species, SpeciesOf(f, k))]],
     r_den           |-> f.r_den,
     ion_type        |-> [k \in Range(f.n_ions) |-> f.species_symbol[SpeciesOf(f, k)]],
     ion_mass        |-> Ito(Quantity([k \in Range(f.n_ions) |-> f.species_mass[SpeciesOf(f, k)]],
                                      "e_mass"), "amu"),
     sc_matrix       |-> f.sc_matrix,
     n_cells_in_sc   |-> NCellsInSc(f.sc_matrix),
     force_constants |-> Quantity(f.force_con, "hartree/bohr**2"),
     cell_origins    |-> f.cell_origins]

(***************************************************************************)
(* _calculate_supercell_image_r and _calculate_supercell_images            *)
(***************************************************************************)
\* np.repeat(a, n): every element n times in a row
Repeat(a, n) == Array([k \in Range(ALen(a) * n) |-> a[k \div n]])

\* np.tile(a, n): the whole array n times
Tile(a, n) == Array([k \in Range(ALen(a) * n) |-> a[k % ALen(a)]])

\* the supercell image limit of calculate_fine_phonons
lim == 2

\* A variant of the list of offsets with the columns in the opposite order:
\* np.column_stack((scz, scy, scx))
CalculateSupercellImageRReversed(l) ==
    LET irange == Array([k \in Range(2 * l + 1) |-> k - l])
        inum == 2 * l + 1
        scx == Repeat(irange, inum * inum)
        scy == Tile(Repeat(irange, inum), inum)
        scz == Tile(irange, inum * inum)
    IN  Array([k \in Range(ALen(scx)) |-> <<scz[k], scy[k], scx[k]>>])

\* the (2*l+1)^3 integer offsets of the supercell images
CalculateSupercellImageR(l) ==
    LET irange == Array([k \in Range(2 * l + 1) |-> k - l])
        inum == 2 * l + 1
        scx == Repeat(irange, inum * inum)
        scy == Tile(Repeat(irange, inum), inum)
        scz == Tile(irange, inum * inum)
    IN  Array([k \in Range(ALen(scx)) |-> <<scx[k], scy[k], scz[k]>>])

\* the points defining the Wigner-Seitz cell
ws_frac ==
    ArrayOf(<<(<<0, 0, 0>>), (<<0, 0, 1>>), (<<0, 1, 0>>), (<<0, 1, 1>>),
              (<<0, 1, -1>>), (<<1, 0, 0>>), (<<1, 0, 1>>), (<<1, 0, -1>>),
              (<<1, 1, 0>>), (<<1, 1, 1>>), (<<1, 1, -1>>), (<<1, -1, 0>>),
              (<<1, -1, 1>>), (<<1, -1, -1>>)>>)

cutoff_scale == 1

\* A variant of the storage with seven bits: values from 64 on wrap around
Int7(x) == ((x + 64) % 128) - 64

\* a value stored in an array of dtype int8
Int8(x) == ((x + 128) % 256) - 128

\* sc_vecs = np.matmul(sc_matrix, cell_vec), cell_vec in bohr
ScVecs(obj) == MatMul(obj.sc_matrix, To(obj.cell_vec, "bohr").mag)

\* ws_list = np.matmul(ws_frac, sc_vecs)
WsList(obj) ==
    LET sc_vecs == ScVecs(obj)
    IN  Array([k \in DOMAIN ws_frac |-> VecMat(ws_frac[k], sc_vecs)])

\* sc_image_cart = np.matmul(sc_image_r, np.transpose(sc_vecs))
ScImageCart(obj, l) ==
    LET sc_image_r == CalculateSupercellImageR(l)
        t == Transpose(ScVecs(obj))
    IN  Array([k \in DOMAIN sc_image_r |-> VecMat(sc_image_r[k], t)])

\* the common denominator of the ion positions in the supercell:
\* r_den from the fractional positions, det(sc_matrix) from np.linalg.inv
ScIonDen(obj) == obj.r_den * Det(obj.sc_matrix)

\* sc_ion_r = np.matmul(np.tile(ion_r, (n_cells_in_sc, 1))
\*                      + np.repeat(cell_origins, n_ions, axis=0), np.linalg.inv(sc_matrix)),
\* as numerators over ScIonDen
ScIonR(obj) ==
    LET tiled == [J \in Range(obj.n_ions * obj.n_cells_in_sc) |-> obj.ion_r[J % obj.n_ions]]
        repeated == [J \in Range(obj.n_ions * obj.n_cells_in_sc) |->
                        obj.cell_origins[J \div obj.n_ions]]
        adj == Adj(obj.sc_matrix)
    IN  Array([J \in Range(obj.n_ions * obj.n_cells_in_sc) |->
                VecMat(VAdd(tiled[J], VScale(obj.r_den, repeated[J])), adj)])

\* sc_ion_cart: a buffer of len(sc_image_r) rows, filled for the
\* n_ions*n_cells_in_sc supercell ions (numerators over ScIonDen)
ScIonCart(obj, l) ==
    LET sc_ion_r == ScIonR(obj)
        sc_vecs == ScVecs(obj)
    IN  Array([J \in Range((2 * l + 1) * (2 * l + 1) * (2 * l + 1)) |->
                IF J < obj.n_ions * obj.n_cells_in_sc
                THEN VecMat(sc_ion_r[J], sc_vecs) ELSE <<0, 0, 0>>])

\* the loop filling sc_ion_cart writes row n_ions*n_cells_in_sc - 1 at most
ScIonCartFits(obj, l) ==
    obj.n_ions * obj.n_cells_in_sc <= (2 * l + 1) * (2 * l + 1) * (2 * l + 1)

\* A variant of the test that leaves out the images on the boundary of the
\* Wigner-Seitz cell: np.max(dist_ws_point) < 0.5*cutoff_scale
InWsCellInside(ws_list, dist, den) ==
    \A w \in (DOMAIN ws_list) \ {0} :
        1000 * Abs(Dot(ws_list[w], dist))
            < (500 * cutoff_scale) * Dot(ws_list[w], ws_list[w]) * Abs(den)

\* np.max(dist_ws_point) <= 0.5*cutoff_scale + 0.001 for dist (numerators over den)
InWsCell(ws_list, dist, den) ==
    \A w \in (DOMAIN ws_list) \ {0} :
        1000 * Abs(Dot(ws_list[w], dist))
            <= (500 * cutoff_scale + 1) * Dot(ws_list[w], ws_list[w]) * Abs(den)

\* dist[k, :] = (sc_ion_cart[i] - sc_ion_cart[j] - sc_image_cart)[k, :], as
\* numerators over den
Dist(sc_ion_cart, sc_image_cart, den, i, j, k) ==
    VSub(VSub(sc_ion_cart[i], sc_ion_cart[j]), VScale(den, sc_image_cart[k]))

\* The image table: for ion i of the unit cell and ion j of the supercell, the
\* indices of the selected images in the order of the loop over k, then zeros,
\* and their number
CalculateSupercellImages(obj, l) ==
    LET ws_list == WsList(obj)
        sc_image_cart == ScImageCart(obj, l)
        sc_ion_cart == ScIonCart(obj, l)
        den == ScIonDen(obj)
        n_img == ALen(sc_image_cart)
        ks == [k \in 1 .. n_img |-> k - 1]
        Sel(i, j) ==
            SelectSeq(ks, LAMBDA k :
                InWsCell(ws_list, Dist(sc_ion_cart, sc_image_cart, den, i, j, k), den))
        sel == Array([i \in Range(obj.n_ions) |->
                  [j \in Range(obj.n_ions * obj.n_cells_in_sc) |-> Sel(i, j)]])
    IN  [sc_image_i  |-> [i \in Range(obj.n_ions) |->
                            [j \in Range(obj.n_ions * obj.n_cells_in_sc) |->
                                [p \in Range(n_img) |->
                                    IF p < Len(sel[i][j]) THEN Int8(sel[i][j][p + 1]) ELSE 0]]],
         n_sc_images |-> [i \in Range(obj.n_ions) |->
                            [j \in Range(obj.n_ions * obj.n_cells_in_sc) |->
                                Int8(Len(sel[i][j]))]]]

(***************************************************************************)
(* Real numbers of the solver: rationals [num, den] (den = 0 is NaN), and  *)
(* square roots sgn * sqrt(num/den) (den = 0 is NaN)                       *)
(***************************************************************************)
RNaN == [num |-> 0, den |-> 0]

\* the real part of a complex number
RealPart(z) == IF z.den = 0 THEN RNaN
               ELSE [num |-> z.re \div Gcd(z.re, z.den), den |-> z.den \div Gcd(z.re, z.den)]

RLess(a, b) == a.num * b.den < b.num * a.den

SqrtNaN == [sgn |-> 0, num |-> 0, den |-> 0]

\* np.sqrt of a real: NaN (with a warning) for a negative argument
NpSqrt(x) ==
    IF x.den = 0 \/ x.num < 0 THEN SqrtNaN
    ELSE [sgn |-> Sign(x.num), num |-> x.num, den |-> IF x.num = 0 THEN 1 ELSE x.den]

(***************************************************************************)
(* np.linalg.eigh                                                          *)
(*                                                                         *)
(* The solver reads the lower triangle of its argument and the real parts  *)
(* of its diagonal.  Its result is modelled where it is known exactly: on  *)
(* matrices whose lower triangle is diagonal, the eigenvalues are the      *)
(* diagonal in ascending order (equal ones in index order) and the column  *)
(* m of evecs is the unit vector of the m-th smallest diagonal entry.      *)
(* On a matrix holding NaN the build decides between raising LinAlgError   *)
(* and returning NaN; it raises LinAlgError when it does not converge.     *)
(***************************************************************************)
LowerHasNaN(m) == \E r \in DOMAIN m : \E c \in DOMAIN m : c <= r /\ CIsNaN(m[r][c])

LowerIsDiagonal(m) == \A r \in DOMAIN m : \A c \in DOMAIN m : c < r => m[r][c] = CZero

\* the position of diagonal entry r in ascending order
EigRank(d, r) ==
    Cardinality({s \in DOMAIN d : RLess(d[s], d[r]) \/ (d[s] = d[r] /\ s < r)})

Eigh(m, converges, nan_raises) ==
    LET n == ALen(m)
        d == Array([r \in Range(n) |-> RealPart(m[r][r])])
        perm == Array([k \in Range(n) |-> CHOOSE r \in Range(n) : EigRank(d, r) = k])
    IN  IF LowerHasNaN(m)
        THEN IF nan_raises THEN [status |-> "LinAlgError"]
             ELSE [status |-> "ok",
                   evals  |-> [k \in Range(n) |-> RNaN],
                   evecs  |-> [r \in Range(n) |-> [k \in Range(n) |-> CNaN]]]
        ELSE IF ~converges THEN [status |-> "LinAlgError"]
        ELSE IF ~LowerIsDiagonal(m) THEN [status |-> "unmodelled"]
        ELSE [status |-> "ok",
              evals  |-> [k \in Range(n) |-> d[perm[k]]],
              evecs  |-> [r \in Range(n) |-> [k \in Range(n) |->
                            IF r = perm[k] THEN CInt(1, 0) ELSE CZero]]]

(***************************************************************************)
(* calculate_fine_phonons: the loop over the q-points                      *)
(***************************************************************************)
\* A variant of the phase with the arguments of np.complex exchanged:
\* np.complex(math.sin(phase), math.cos(phase))
PhaseSwapped(quarter_turns) ==
    LET t == quarter_turns % 4
    IN  CASE t = 0 -> CInt(0, 1)
          [] t = 1 -> CInt(1, 0)
          [] t = 2 -> CInt(0, -1)
          [] t = 3 -> CInt(-1, 0)

\* np.complex(math.cos(phase), math.sin(phase)) for phase = 2*pi*turns/4
Phase(quarter_turns) ==
    LET t == quarter_turns % 4
    IN  CASE t = 0 -> CInt(1, 0)
          [] t = 1 -> CInt(0, 1)
          [] t = 2 -> CInt(-1, 0)
          [] t = 3 -> CInt(0, -1)

\* phases = np.zeros((n_cells_in_sc, (2*lim + 1)**3))
ZeroPhases(obj, l) ==
    Array([nc \in Range(obj.n_cells_in_sc) |->
             [i \in Range((2 * l + 1) * (2 * l + 1) * (2 * l + 1)) |-> CZero]])

\* A variant of the phase lookup loop that adds to phases[nc, i] instead of
\* assigning it
FillPhasesAccumulate(phases, obj, qpt, l) ==
    LET sc_image_r == CalculateSupercellImageR(l)
        n_images == ALen(sc_image_r)
        t == Transpose(obj.sc_matrix)
    IN  Array([nc \in DOMAIN phases |-> [i \in DOMAIN phases[nc] |->
            IF i \in Range(n_images) /\ nc \in Range(obj.n_cells_in_sc)
            THEN CAdd(phases[nc][i],
                      Phase(Dot(qpt, VAdd(MatVec(t, sc_image_r[i]), obj.cell_origins[nc]))))
            ELSE phases[nc][i]]])

\* A variant of the phase lookup loop without the transpose:
\* sc_offset = np.dot(sc_matrix, sc_image_r[i, :])
FillPhasesNoTranspose(phases, obj, qpt, l) ==
    LET sc_image_r == CalculateSupercellImageR(l)
        n_images == ALen(sc_image_r)
    IN  Array([nc \in DOMAIN phases |-> [i \in DOMAIN phases[nc] |->
            IF i \in Range(n_images) /\ nc \in Range(obj.n_cells_in_sc)
            THEN Phase(Dot(qpt, VAdd(MatVec(obj.sc_matrix, sc_image_r[i]), obj.cell_origins[nc])))
            ELSE phases[nc][i]]])

\* The phase lookup loop: phases[nc, i] is written for every image i and cell nc
FillPhases(phases, obj, qpt, l) ==
    LET sc_image_r == CalculateSupercellImageR(l)
        n_images == ALen(sc_image_r)
        t == Transpose(obj.sc_matrix)
    IN  Array([nc \in DOMAIN phases |-> [i \in DOMAIN phases[nc] |->
            IF i \in Range(n_images) /\ nc \in Range(obj.n_cells_in_sc)
            THEN Phase(Dot(qpt, VAdd(MatVec(t, sc_image_r[i]), obj.cell_origins[nc])))
            ELSE phases[nc][i]]])

\* phases[nc, k] for an index k read from sc_image_i: numpy counts a negative
\* index from the end of the row
NpIndex(row, k) == row[IF k < 0 THEN k + ALen(row) ELSE k]

\* A variant of the sum over the images that reads one entry more of the
\* table: for img_i in range(n_sc_images[i, scj] + 1)
RECURSIVE PhaseSumOneMore(_, _, _)
PhaseSumOneMore(row, images, n) ==
    IF n < 0 THEN CZero ELSE CAdd(PhaseSumOneMore(row, images, n - 1), NpIndex(row, images[n]))

\* term: the sum of the phases of the first n images of the pair (i, scj)
RECURSIVE PhaseSum(_, _, _)
PhaseSum(row, images, n) ==
    IF n <= 0 THEN CZero ELSE CAdd(PhaseSum(row, images, n - 1), NpIndex(row, images[n - 1]))

\* term of every pair (i, scj): the sum of the phases of its images
Terms(obj, phases) ==
    Array([i \in Range(obj.n_ions) |-> [scj \in Range(obj.n_ions * obj.n_cells_in_sc) |->
             PhaseSum(phases[scj \div obj.n_ions], obj.sc_image_i[i][scj],
                      obj.n_sc_images[i][scj])]])

\* A variant of the dyn_mat update without the division by n_sc_images[i, scj]
RECURSIVE DynMatEntryNoAverage(_, _, _, _, _)
DynMatEntryNoAverage(obj, terms, r, c, ncells) ==
    IF ncells = 0 THEN CZero
    ELSE LET nc == ncells - 1
             i == r \div 3
             scj == nc * obj.n_ions + (c \div 3)
         IN  CAdd(DynMatEntryNoAverage(obj, terms, r, c, nc),
                  CScale(terms[i][scj], obj.force_constants.mag[scj \div obj.n_ions][r][c]))

\* A variant of the dyn_mat update that numbers the supercell ions ion by ion
\* (scj = j*n_cells_in_sc + nc) instead of cell by cell
RECURSIVE DynMatEntryByIon(_, _, _, _, _)
DynMatEntryByIon(obj, terms, r, c, ncells) ==
    IF ncells = 0 THEN CZero
    ELSE LET nc == ncells - 1
             i == r \div 3
             scj == (c \div 3) * obj.n_cells_in_sc + nc
         IN  CAdd(DynMatEntryByIon(obj, terms, r, c, nc),
                  CDiv(CScale(terms[i][scj], obj.force_constants.mag[nc][r][c]),
                       obj.n_sc_images[i][scj]))

\* dyn_mat[r, c] after the loops over i and scj, as the sum over the first
\* ncells cells of the supercell ions scj with scj % n_ions = c div 3
RECURSIVE DynMatEntry(_, _, _, _, _)
DynMatEntry(obj, terms, r, c, ncells) ==
    IF ncells = 0 THEN CZero
    ELSE LET nc == ncells - 1
             i == r \div 3
             scj == nc * obj.n_ions + (c \div 3)
         IN  CAdd(DynMatEntry(obj, terms, r, c, nc),
                  CDiv(CScale(terms[i][scj], obj.force_constants.mag[scj \div obj.n_ions][r][c]),
                       obj.n_sc_images[i][scj]))

\* dyn_mat as handed to np.linalg.eigh
DynMat(obj, phases) ==
    LET terms == Terms(obj, phases)
    IN  Array([r \in Range(3 * obj.n_ions) |-> [c \in Range(3 * obj.n_ions) |->
                 DynMatEntry(obj, terms, r, c, obj.n_cells_in_sc)]])

\* np.reshape(evecs, (n_branches, n_ions, 3)) of the square array evecs
ReshapeEvecs(evecs, n_branches, n_ions) ==
    LET cols == ALen(evecs)
        Flat(k) == evecs[k \div cols][k % cols]
    IN  [m \in Range(n_branches) |-> [i \in Range(n_ions) |-> [a \in Range(3) |->
            Flat(m * (n_ions * 3) + i * 3 + a)]]]

\* freqs[q, :] = np.sqrt(evals)
FreqsOf(evals) == [k \in DOMAIN evals |-> NpSqrt(evals[k])]

\* The locals of calculate_fine_phonons before the loop over the q-points.
\* solver_in, evals and evecs keep, per q-point, the argument and the results of
\* np.linalg.eigh.
LoopStart(obj, qpts, l) ==
    [status    |-> "ok",
     failed_q  |-> -1,
     qpts      |-> qpts,
     phases    |-> ZeroPhases(obj, l),
     freqs     |-> [q \in 1 .. Len(qpts) |-> [k \in Range(obj.n_branches) |-> NpSqrt(RealPart(CZero))]],
     eigenvecs |-> [q \in 1 .. Len(qpts) |->
                      [m \in Range(obj.n_branches) |-> [i \in Range(obj.n_ions) |->
                          [a \in Range(3) |-> CZero]]]],
     solver_in |-> <<>>,
     evals     |-> <<>>,
     evecs     |-> <<>>]

\* The end of an iteration: eigh raised, or row q + 1 of eigenvecs and freqs is set
QStepStore(st, obj, q, phases, dyn_mat, e) ==
    IF e.status # "ok"
    THEN [st EXCEPT !.status = e.status, !.failed_q = q, !.phases = phases,
                    !.solver_in = Append(@, dyn_mat)]
    ELSE [st EXCEPT !.phases = phases,
                    !.solver_in = Append(@, dyn_mat),
                    !.evals = Append(@, e.evals),
                    !.evecs = Append(@, e.evecs),
                    !.eigenvecs[q + 1] = ReshapeEvecs(e.evecs, obj.n_branches, obj.n_ions),
                    !.freqs[q + 1] = FreqsOf(e.evals)]

\* evals, evecs = np.linalg.eigh(dyn_mat)
QStepSolve(st, obj, q, sv, phases, dyn_mat) ==
    QStepStore(st, obj, q, phases, dyn_mat,
               Eigh(dyn_mat, st.qpts[q + 1] \notin sv.nonconv, sv.nan_raises))

\* the loops over i and scj that build dyn_mat from the phases of this q-point
QStepAssemble(st, obj, q, sv, phases) ==
    QStepSolve(st, obj, q, sv, phases, DynMat(obj, phases))

\* One iteration of the loop, for q-point number q (row q + 1)
QStep(st, obj, q, sv, l) ==
    QStepAssemble(st, obj, q, sv, FillPhases(st.phases, obj, st.qpts[q + 1], l))

\* The loop from q-point number q on; an exception ends it
RECURSIVE QLoop(_, _, _, _, _)
QLoop(st, obj, q, sv, l) ==
    IF q >= Len(st.qpts) \/ st.status # "ok" THEN st
    ELSE QLoop(QStep(st, obj, q, sv, l), obj, q + 1, sv, l)

(***************************************************************************)
(* Inputs                                                                  *)
(***************************************************************************)
\* q-points, in quarters of a reciprocal lattice vector
QSet == {<<0, 0, 0>>, <<1, 0, 0>>, <<-1, 0, 0>>, <<2, 1, 0>>}

MaxQpts == 2

QLists == UNION {[1 .. n -> QSet] : n \in 0 .. MaxQpts}

\* What the solver of the build does: the q-points at which it does not
\* converge, and whether it raises on a matrix holding NaN
Solvers == {[nonconv |-> {}, nan_raises |-> FALSE],
            [nonconv |-> {<<1, 0, 0>>}, nan_raises |-> TRUE]}

(***************************************************************************)
(* The object.  self is the record of the attributes of the                *)
(* InterpolationData object (hasattr is membership in its domain), or      *)
(* NoObject when none has been constructed.                                *)
(***************************************************************************)
NoObject == [none |-> TRUE]

HasAttr(obj, name) == name \in DOMAIN obj

\* the units before the first '/' of the units of the force constants
EnergyUnits(units) == IF units = "hartree/bohr**2" THEN "hartree" ELSE units

\* __init__ up to the call of calculate_fine_phonons
InitAttributes(f, qpts) ==
    [qpts      |-> qpts,
     n_qpts    |-> Len(qpts),
     eigenvecs |-> <<>>,
     freqs     |-> Quantity(<<>>, EnergyUnits(ReadInterpolationData(f).force_constants.units))]
    @@ ReadInterpolationData(f)

\* the input files that the constructor reads without an error
ReadableFiles == {f \in FileIds : ReadError(Files[f]) = "none"}

\* the entry of a table of evaluations that was made for these inputs
Lookup(table, inputs) == table[CHOOSE f \in DOMAIN table : table[f].inputs = inputs]

\* what _calculate_supercell_images reads of the object
ImageInputs(obj) ==
    <<obj.n_ions, obj.n_cells_in_sc, obj.sc_matrix, obj.cell_vec, obj.ion_r, obj.r_den,
      obj.cell_origins>>

\* The image table is a function of what _calculate_supercell_images reads.
\* It is evaluated once for the object of every input file on which it completes.
ImageTable ==
    Array([f \in {g \in ReadableFiles : ScIonCartFits(InitAttributes(Files[g], <<>>), lim)} |->
             [inputs |-> ImageInputs(InitAttributes(Files[f], <<>>)),
              images |-> Array(CalculateSupercellImages(InitAttributes(Files[f], <<>>), lim))]])

\* A variant of _calculate_supercell_images that converts self.cell_vec to bohr
\* in place (Quantity.ito) instead of taking a converted copy (Quantity.to)
SetImagesInPlace(obj) ==
    Lookup(ImageTable, ImageInputs(obj)).images @@ [obj EXCEPT !.cell_vec = Ito(@, "bohr")]

\* _calculate_supercell_images: the two attributes it sets at its end
SetImages(obj) == Lookup(ImageTable, ImageInputs(obj)).images @@ obj

\* A variant of the end of calculate_fine_phonons that stores qpts, freqs and
\* eigenvecs but leaves self.n_qpts as the constructor set it
StoreResultsKeepCount(obj, st) ==
    [obj EXCEPT !.qpts      = st.qpts,
                !.freqs     = Quantity(st.freqs, obj.freqs.units),
                !.eigenvecs = st.eigenvecs]

\* The end of calculate_fine_phonons: the results of the loop are stored
StoreResults(obj, st) ==
    [obj EXCEPT !.n_qpts    = Len(st.qpts),
                !.qpts      = st.qpts,
                !.freqs     = Quantity(st.freqs, obj.freqs.units),
                !.eigenvecs = st.eigenvecs]

\* The record of a call: how it ended, whether it was the first call on the
\* object, whether it ran _calculate_supercell_images, its argument before and
\* after, what it returned, and what the solver was given and gave at each q-point
CallRecord(op, status, first, ran_images, arg, st, returned, value) ==
    [op         |-> op,
     status     |-> status,
     first      |-> first,
     ran_images |-> ran_images,
     arg        |-> arg,
     arg_after  |-> st.qpts,
     failed_q   |-> st.failed_q,
     returned   |-> returned,
     value      |-> value,
     solver_in  |-> st.solver_in,
     evals      |-> st.evals,
     evecs      |-> st.evecs]

NoLoop(qpts) == [qpts |-> qpts, failed_q |-> -1, solver_in |-> <<>>, evals |-> <<>>, evecs |-> <<>>]

NoValue == [freqs |-> Quantity(<<>>, "none"), eigenvecs |-> <<>>]

NoCall == CallRecord("none", "none", FALSE, FALSE, <<>>, NoLoop(<<>>), FALSE, NoValue)

\* return self.freqs, self.eigenvecs
Returned(obj, st, op, first, ran_images, qpts) ==
    [obj |-> obj,
     ret |-> CallRecord(op, "ok", first, ran_images, qpts, st, TRUE,
                        [freqs |-> obj.freqs, eigenvecs |-> obj.eigenvecs])]

\* an exception leaves calculate_fine_phonons
Raised(obj, st, status, op, first, ran_images, qpts) ==
    [obj |-> obj,
     ret |-> CallRecord(op, status, first, ran_images, qpts, st, FALSE, NoValue)]

\* A variant of the end of the call that stores the rows computed so far on
\* the object before the exception of eigh leaves it
EndCallPartial(obj, st, op, first, ran_images, qpts) ==
    IF st.status # "ok"
    THEN Raised(StoreResults(obj, st), st, st.status, op, first, ran_images, qpts)
    ELSE Returned(StoreResults(obj, st), st, op, first, ran_images, qpts)

\* after the loop: the results are stored and returned unless eigh raised
EndCall(obj, st, op, first, ran_images, qpts) ==
    IF st.status # "ok"
    THEN Raised(obj, st, st.status, op, first, ran_images, qpts)
    ELSE Returned(StoreResults(obj, st), st, op, first, ran_images, qpts)

\* what the loop over the q-points reads of the object
LoopInputs(obj) ==
    <<obj.n_ions, obj.n_branches, obj.n_cells_in_sc, obj.sc_matrix, obj.cell_origins,
      obj.force_constants, obj.sc_image_i, obj.n_sc_images>>

\* the loop over all the q-points of a call on obj, under every solver
LoopOf(obj) ==
    [inputs |-> LoopInputs(obj),
     loops  |-> Array([sv \in Solvers |-> Array([qpts \in QLists |->
                   QLoop(LoopStart(obj, qpts, lim), obj, 0, sv, lim)])])]

\* The loop is a function of what it reads, of the q-points and of the solver.
\* It is evaluated once for the object of every input file that gets as far
\* as the loop, every solver and every list of q-points.
LoopTable ==
    Array([f \in DOMAIN ImageTable |->
             LoopOf(Array(SetImages(InitAttributes(Files[f], <<>>))))])

\* calculate_fine_phonons from the loop on, on an object that has the image table
RunLoop(obj, qpts, sv, op, first, ran_images) ==
    EndCall(obj, Lookup(LoopTable, LoopInputs(obj)).loops[sv][qpts], op, first, ran_images, qpts)

\* calculate_fine_phonons(qpts) on obj: the object after the call and the record
\* of the call
FinePhonons(obj, qpts, sv, op, first) ==
    IF HasAttr(obj, "sc_image_i")
    THEN RunLoop(obj, qpts, sv, op, first, FALSE)
    ELSE IF ~ScIonCartFits(obj, lim)
    THEN Raised(obj, NoLoop(qpts), "IndexError", op, first, TRUE, qpts)
    ELSE RunLoop(SetImages(obj), qpts, sv, op, first, TRUE)

\* the constructor's call of calculate_fine_phonons: its exception leaves no object
InitCall(r) == IF r.ret.status = "ok" THEN r ELSE [r EXCEPT !.obj = NoObject]

\* InterpolationData(seedname, path, qpts) on file f
NewObject(f, qpts, sv) ==
    IF ReadError(f) # "none"
    THEN Raised(NoObject, NoLoop(qpts), ReadError(f), "init", FALSE, FALSE, qpts)
    ELSE IF Len(qpts) > 0
    THEN InitCall(FinePhonons(InitAttributes(f, qpts), qpts, sv, "init", TRUE))
    ELSE [obj |-> InitAttributes(f, qpts),
          ret |-> CallRecord("init", "ok", FALSE, FALSE, qpts, NoLoop(qpts), FALSE, NoValue)]

(***************************************************************************)
(* Specification                                                           *)
(***************************************************************************)
Init ==
    /\ file \in FileIds
    /\ solver \in Solvers
    /\ self = NoObject
    /\ last = NoCall
    /\ called = FALSE

\* the state after an operation with result r
Becomes(r) ==
    /\ r.ret.status # "unmodelled"
    /\ self' = r.obj
    /\ last' = r.ret
    /\ called' = (called \/ r.ret.first)
    /\ UNCHANGED <<file, solver>>

\* InterpolationData(seedname, path, qpts)
Construct(qpts) ==
    /\ self = NoObject
    /\ last.op = "none"
    /\ Becomes(NewObject(Files[file], qpts, solver))

\* self.calculate_fine_phonons(qpts) on the constructed object
CalculateFinePhonons(qpts) ==
    /\ self # NoObject
    /\ Becomes(FinePhonons(self, qpts, solver, "call", ~called))

Next ==
    \/ \E qpts \in QLists : Construct(qpts)
    \/ \E qpts \in QLists : CalculateFinePhonons(qpts)

Spec == Init /\ [][Next]_vars

(***************************************************************************)
(* Properties                                                              *)
(***************************************************************************)
\* the last operation made a call of calculate_fine_phonons
CallMade == last.op = "call" \/ (last.op = "init" /\ last.first)

\* the rows that the last call was asked for
Rows == 1 .. Len(last.arg)

\* the last call returned its results
CallReturned == CallMade /\ last.status = "ok" /\ last.returned

\* C1: over the calls on one object, _calculate_supercell_images runs exactly
\* once, in the first call, which leaves the image table on the object; a later
\* call does not run it and finds the table that it computes for this object.
C1_ImageTableOnce ==
    CallMade /\ self # NoObject =>
        /\ last.ran_images = last.first
        /\ HasAttr(self, "sc_image_i") /\ HasAttr(self, "n_sc_images")
        /\ self.sc_image_i = Lookup(ImageTable, ImageInputs(self)).images.sc_image_i
        /\ self.n_sc_images = Lookup(ImageTable, ImageInputs(self)).images.n_sc_images

\* C2: when np.linalg.eigh raises at a q-point of a call, the call returns
\* nothing and n_qpts, qpts, freqs and eigenvecs of the object keep the values
\* they had before the call (the constructor's call leaves no object at all).
C2_FailedCallExposesNothing ==
    [][last'.status = "LinAlgError" =>
          /\ ~last'.returned
          /\ last'.value = NoValue
          /\ IF self = NoObject THEN self' = NoObject
             ELSE /\ self' # NoObject
                  /\ self'.n_qpts = self.n_qpts
                  /\ self'.qpts = self.qpts
                  /\ self'.freqs = self.freqs
                  /\ self'.eigenvecs = self.eigenvecs]_vars

\* C2 happens: a call on an object that holds earlier results fails at its
\* second q-point or later, after rows have been computed
C2_Witness ==
    /\ last.op = "call"
    /\ last.status = "LinAlgError"
    /\ last.failed_q >= 1
    /\ Len(last.evals) >= 1
    /\ self # NoObject
    /\ self.n_qpts >= 1

\* C3: the image table with which a dynamical matrix is assembled has
\* n_sc_images[i, J] >= 1 for every ion i of the unit cell and every ion J of the
\* supercell (otherwise a diagnostic is raised and no matrix is assembled).
C3_CountsPositive ==
    Len(last.solver_in) > 0 /\ self # NoObject =>
        /\ HasAttr(self, "n_sc_images")
        /\ \A i \in Range(self.n_ions) : \A J \in Range(self.n_ions * self.n_cells_in_sc) :
               self.n_sc_images[i][J] >= 1

\* C4: eigenvecs[q, m, i, a] of a returned result is component 3i+a of the
\* eigenvector of the m-th eigenvalue, which is column m of the evecs that
\* np.linalg.eigh returned at q.
C4_EigenvectorOfMode ==
    CallReturned =>
        \A q \in Rows : \A m \in Range(self.n_branches) :
            \A i \in Range(self.n_ions) : \A a \in Range(3) :
                last.value.eigenvecs[q][m][i][a] = last.evecs[q][3 * i + a][m]

\* sign(x)*sqrt(|x|) of a real x
SignedSqrt(x) ==
    IF x.den = 0 THEN SqrtNaN
    ELSE [sgn |-> Sign(x.num), num |-> Abs(x.num), den |-> IF x.num = 0 THEN 1 ELSE x.den]

\* C5: the frequency returned for the eigenvalue lambda that np.linalg.eigh gave
\* is sign(lambda)*sqrt(|lambda|): negative for a negative eigenvalue, never NaN.
C5_SignedFrequencies ==
    CallReturned =>
        \A q \in Rows : \A m \in Range(self.n_branches) :
            last.evals[q][m].den # 0 =>
                /\ last.value.freqs.mag[q][m] # SqrtNaN
                /\ last.value.freqs.mag[q][m] = SignedSqrt(last.evals[q][m])

\* the integer square root of a perfect square
ISqrt(n) == CHOOSE k \in 0 .. n : k * k = n

\* the matrix accumulated by the loops over i and scj for the q-point qpt
Accumulated(obj, qpt) == DynMat(obj, FillPhases(ZeroPhases(obj, lim), obj, qpt, lim))

\* C6: the matrix given to np.linalg.eigh at each q-point is the accumulated
\* matrix with element [3i+a, 3j+b] divided by sqrt(m_i * m_j).
C6_MassWeighted ==
    Len(last.solver_in) > 0 /\ self # NoObject
        /\ (\A i \in Range(self.n_ions) : self.ion_mass.mag[i] > 0) =>
            \A q \in 1 .. Len(last.solver_in) :
                \A r \in Range(self.n_branches) : \A c \in Range(self.n_branches) :
                    last.solver_in[q][r][c] =
                        CDiv(Accumulated(self, last.arg[q])[r][c],
                             ISqrt(self.ion_mass.mag[r \div 3] * self.ion_mass.mag[c \div 3]))

\* C7: the matrix given to np.linalg.eigh at each q-point is Hermitian.
C7_SolverInputHermitian ==
    \A q \in 1 .. Len(last.solver_in) :
        \A r \in DOMAIN last.solver_in[q] : \A c \in DOMAIN last.solver_in[q] :
            last.solver_in[q][r][c] = CConj(last.solver_in[q][c][r])

\* the geometry that the constructor is to refuse
InvalidGeometry(f) ==
    \/ Det(f.sc_matrix) = 0
    \/ \E s \in DOMAIN f.species_mass : f.species_mass[s] <= 0
    \/ ALen(f.cell_origins) # NCellsInSc(f.sc_matrix)

\* C8: with det(sc_matrix) = 0, an ion mass that is not positive or a number of
\* cell_origins rows other than n_cells, the constructor fails: there is no
\* object, and no phonon calculation was started.
C8_ConstructorValidates ==
    InvalidGeometry(Files[file]) /\ last.op # "none" =>
        /\ self = NoObject
        /\ last.status # "ok"
        /\ ~last.ran_images
        /\ Len(last.solver_in) = 0

\* the attributes that calculate_fine_phonons may set
ResultAttributes == {"n_qpts", "qpts", "freqs", "eigenvecs"}

ImageAttributes == {"sc_image_i", "n_sc_images"}

\* C9: a call of calculate_fine_phonons, successful or not, leaves every
\* attribute of the object other than n_qpts, qpts, freqs and eigenvecs as it
\* was (force_constants, sc_matrix, cell_origins, ion_r, ion_mass, cell_vec,
\* n_ions, n_cells_in_sc among them), adds no attribute but the image table, and
\* that in the first call only, and leaves its argument as it was; the object
\* that the constructor's call leaves holds what was read from the file.
C9_InputsNotMutated ==
    [][self' # NoObject =>
          /\ last'.arg_after = last'.arg
          /\ IF self = NoObject
             THEN \A attr \in DOMAIN ReadInterpolationData(Files[file]) :
                      self'[attr] = ReadInterpolationData(Files[file])[attr]
             ELSE /\ \A attr \in DOMAIN self \ ResultAttributes : self'[attr] = self[attr]
                  /\ DOMAIN self' \ DOMAIN self \subseteq ImageAttributes
                  /\ DOMAIN self' # DOMAIN self => last'.first]_vars

\* C9 happens: a first call on a constructed object has set the image table, and
\* a later call has replaced earlier results
C9_Witness ==
    /\ last.op = "call"
    /\ ~last.first
    /\ last.status = "ok"
    /\ Len(last.arg) >= 1
    /\ self # NoObject
    /\ HasAttr(self, "sc_image_i")
    /\ self.qpts = last.arg

\* the loop over the single q-point qpt on the object, under the solver of the build
SingleRow(obj, qpt) == Lookup(LoopTable, LoopInputs(obj)).loops[solver][<<qpt>>]

\* C10: row q of the returned freqs and eigenvecs is the row obtained by
\* evaluating qpts[q] alone, whatever the other q-points of the list are.
C10_RowDependsOnItsQPoint ==
    CallReturned =>
        \A q \in Rows :
            /\ SingleRow(self, last.arg[q]).status = "ok"
            /\ last.value.freqs.mag[q] = SingleRow(self, last.arg[q]).freqs[1]
            /\ last.value.eigenvecs[q] = SingleRow(self, last.arg[q]).eigenvecs[1]

\* C10 happens: a call returned rows for two different q-points, and the rows differ
C10_Witness ==
    /\ CallReturned
    /\ Len(last.arg) >= 2
    /\ last.arg[1] # last.arg[2]
    /\ last.value.freqs.mag[1] # last.value.freqs.mag[2]

\* C11: the stored results describe the most recent calculation.  After a
\* construction without q-points n_qpts = 0 and qpts, freqs and eigenvecs are
\* empty; after a call that returned, n_qpts is the number of rows of the
\* argument, qpts is the argument, freqs has n_qpts rows of 3*n_ions entries,
\* eigenvecs has the shape n_qpts x 3*n_ions x n_ions x 3, and the stored freqs
\* and eigenvecs are the ones returned.
C11_StoredResultsAreLatest ==
    /\ last.op = "init" /\ last.status = "ok" /\ ~CallMade =>
           /\ self.n_qpts = 0
           /\ self.qpts = <<>>
           /\ self.freqs.mag = <<>>
           /\ self.eigenvecs = <<>>
    /\ CallReturned =>
           /\ self.n_qpts = Len(last.arg)
           /\ self.qpts = last.arg
           /\ Len(self.freqs.mag) = self.n_qpts
           /\ Len(self.eigenvecs) = self.n_qpts
           /\ \A q \in 1 .. self.n_qpts :
                  /\ DOMAIN self.freqs.mag[q] = Range(3 * self.n_ions)
                  /\ DOMAIN self.eigenvecs[q] = Range(3 * self.n_ions)
                  /\ \A m \in Range(3 * self.n_ions) :
                         /\ DOMAIN self.eigenvecs[q][m] = Range(self.n_ions)
                         /\ \A i \in Range(self.n_ions) :
                                DOMAIN self.eigenvecs[q][m][i] = Range(3)
           /\ last.value.freqs = self.freqs
           /\ last.value.eigenvecs = self.eigenvecs

\* C11 happens: a later call on the object returned, and the object holds the
\* results for its single q-point
C11_Witness ==
    /\ last.op = "call"
    /\ ~last.first
    /\ CallReturned
    /\ Len(last.arg) = 1
    /\ self.n_qpts = 1

\* q2 is -q1 modulo the reciprocal lattice (q-points in quarter turns)
IsMinus(q1, q2) == \A c \in 1 .. 3 : (q1[c] + q2[c]) % 4 = 0

\* C12: when a call is given q and -q, the matrix assembled at -q is the
\* elementwise complex conjugate of the matrix assembled at q, and the
\* eigenvalues that np.linalg.eigh returns for the two (in ascending order) are
\* equal.
C12_MinusQ ==
    CallMade =>
        \A q1 \in 1 .. Len(last.evals) : \A q2 \in 1 .. Len(last.evals) :
            IsMinus(last.arg[q1], last.arg[q2]) =>
                /\ last.evals[q2] = last.evals[q1]
                /\ \A r \in DOMAIN last.solver_in[q1] : \A c \in DOMAIN last.solver_in[q1] :
                       last.solver_in[q2][r][c] = CConj(last.solver_in[q1][r][c])

\* C12 happens: a call returned for q = (1/4, 0, 0) and -q, where the assembled
\* matrices are not real
C12_Witness ==
    /\ CallReturned
    /\ Len(last.arg) = 2
    /\ last.arg[1] = <<1, 0, 0>>
    /\ last.arg[2] = <<-1, 0, 0>>
    /\ last.solver_in[1] # last.solver_in[2]

\* the largest multiple of the image lists that is tried
MaxMult == 3

\* the object with, for every pair (i, J), n_sc_images[i, J] multiplied by m
\* and the list of the images of the pair repeated m times
Replicated(obj, m) ==
    [obj EXCEPT
        !.n_sc_images = Array([i \in DOMAIN @ |-> [J \in DOMAIN @[i] |-> m * @[i][J]]]),
        !.sc_image_i  = Array([i \in DOMAIN @ |-> [J \in DOMAIN @[i] |->
                            [p \in Range(m * obj.n_sc_images[i][J]) |->
                                @[i][J][p % obj.n_sc_images[i][J]]]]])]

\* the phases of the q-point qpt
PhasesOf(obj, qpt) == FillPhases(ZeroPhases(obj, lim), obj, qpt, lim)

\* the object of input file f once it has the image table
TableObject(f) == Array(SetImages(InitAttributes(Files[f], <<>>)))

\* The matrices assembled from the replicated image lists, evaluated once for
\* the object of every input file that gets as far as the loop, every multiple
\* and every q-point
ReplicatedTable ==
    Array([f \in DOMAIN LoopTable |->
             [inputs |-> LoopTable[f].inputs,
              mats   |-> Array([m \in 1 .. MaxMult |-> Array([qpt \in QSet |->
                            DynMat(Replicated(TableObject(f), m),
                                   PhasesOf(TableObject(f), qpt))])])]])

\* C13: the matrix assembled at every q-point of a call is the one assembled
\* with n_sc_images[i, J] replaced by m * n_sc_images[i, J] and the image list of
\* every pair (i, J) repeated m times, for every positive integer m.
C13_CumulantNormalization ==
    Len(last.solver_in) > 0 /\ self # NoObject =>
        \A q \in 1 .. Len(last.solver_in) : \A m \in 1 .. MaxMult :
            Lookup(ReplicatedTable, LoopInputs(self)).mats[m][last.arg[q]] = last.solver_in[q]

\* C13 happens: a matrix was assembled from a pair with several images whose
\* phases do not cancel
C13_Witness ==
    /\ Len(last.solver_in) > 0
    /\ self # NoObject
    /\ \E i \in Range(self.n_ions) : \E J \in Range(self.n_ions * self.n_cells_in_sc) :
           /\ self.n_sc_images[i][J] >= 2
           /\ self.force_constants.mag[J \div self.n_ions][3 * i][3 * (J % self.n_ions) + 1] # 0
           /\ last.solver_in[1][3 * i][3 * (J % self.n_ions) + 1] # CZero

\* _calculate_supercell_images has run in the last call and left its table
TableBuilt == CallMade /\ last.ran_images /\ self # NoObject /\ HasAttr(self, "sc_image_i")

\* the index of the offsets and the pairs (i, J) of the table of the object
Offsets == Range((2 * lim + 1) * (2 * lim + 1) * (2 * lim + 1))

Pairs == Range(self.n_ions) \X Range(self.n_ions * self.n_cells_in_sc)

Generators ==
    {<<0, 0, 1>>, <<0, 1, 0>>, <<0, 1, 1>>, <<0, 1, -1>>, <<1, 0, 0>>, <<1, 0, 1>>,
     <<1, 0, -1>>, <<1, 1, 0>>, <<1, 1, 1>>, <<1, 1, -1>>, <<1, -1, 0>>, <<1, -1, 1>>,
     <<1, -1, -1>>}

\* the offset indices that the table of obj lists for the pair (i, J)
Listed(obj, i, J) == {obj.sc_image_i[i][J][p] : p \in Range(obj.n_sc_images[i][J])}

\* C15: the table lists the offset k for the pair (i, J) exactly when
\* |dist(k) . w| / |w|^2 <= 0.5 + 0.001 for each of the 13 non-zero generators w
\* (dist as numerators over ScIonDen, hence the factor |den|).
C15_SelectionCriterion ==
    TableBuilt =>
        LET W == {VecMat(g, ScVecs(self)) : g \in Generators}
            cart == ScIonCart(self, lim)
            sc_image_cart == ScImageCart(self, lim)
            den == ScIonDen(self)
        IN  /\ Cardinality(Generators) = 13
            /\ \A pair \in Pairs : \A k \in Offsets :
                   k \in Listed(self, pair[1], pair[2])
                       <=> \A w \in W :
                               1000 * Abs(Dot(Dist(cart, sc_image_cart, den, pair[1], pair[2], k), w))
                                   <= 501 * Dot(w, w) * Abs(den)

\* C15 happens: the table lists images on the boundary of the Wigner-Seitz
\* cell (several images for one pair) and leaves others out
C15_Witness ==
    /\ TableBuilt
    /\ \E pair \in Pairs :
           /\ self.n_sc_images[pair[1]][pair[2]] >= 2
           /\ self.n_sc_images[pair[1]][pair[2]] < Cardinality(Offsets)

\* the sum of the complex numbers term[x] over the elements x of a finite set
RECURSIVE CSum(_, _)
CSum(term, set) ==
    IF set = {} THEN CZero
    ELSE LET x == CHOOSE y \in set : TRUE
         IN  CAdd(term[x], CSum(term, set \ {x}))

\* element [3i+a, 3j+b] of the block of the ions i and j: the sum over the cells
\* c of (the sum of phase[c, k] over the images k listed for (i, J = c*n_ions + j))
\* * FC[c, 3i+a, 3j+b] / counts[i, J]
BlockElement(obj, phases, i, j, a, b) ==
    CSum([c \in Range(obj.n_cells_in_sc) |->
             CDiv(CScale(CSum([k \in Listed(obj, i, c * obj.n_ions + j) |-> phases[c][k]],
                              Listed(obj, i, c * obj.n_ions + j)),
                         obj.force_constants.mag[c][3 * i + a][3 * j + b]),
                  obj.n_sc_images[i][c * obj.n_ions + j])],
         Range(obj.n_cells_in_sc))

\* the position of the supercell ion J that the table was built with: ion
\* J mod n_ions in the cell J div n_ions (numerators over r_den)
IonOfCell(obj, J) ==
    VAdd(obj.ion_r[J % obj.n_ions], VScale(obj.r_den, obj.cell_origins[J \div obj.n_ions]))

\* The matrix of the block elements, evaluated once for the object of every
\* input file that gets as far as the loop and every q-point
BlockTable ==
    Array([f \in DOMAIN LoopTable |->
             [inputs |-> LoopTable[f].inputs,
              mats   |-> Array([qpt \in QSet |->
                            [r \in Range(3 * TableObject(f).n_ions) |->
                                [c \in Range(3 * TableObject(f).n_ions) |->
                                    BlockElement(TableObject(f), PhasesOf(TableObject(f), qpt),
                                                 r \div 3, c \div 3, r % 3, c % 3)]]])]])

\* C16: every 3x3 block D[3i:3i+3, 3j:3j+3] of the matrix assembled at a
\* q-point is the sum over the cells c of (sum of phase[c, k] over the images k
\* of the pair (i, J = c*n_ions + j)) * FC[c, 3i:3i+3, 3j:3j+3] / counts[i, J], and
\* J = c*n_ions + j is the numbering of the supercell ions with which the table
\* was built.
C16_BlockAssembly ==
    Len(last.solver_in) > 0 /\ self # NoObject =>
        /\ \A q \in 1 .. Len(last.solver_in) :
               last.solver_in[q] = Lookup(BlockTable, LoopInputs(self)).mats[last.arg[q]]
        /\ \A J \in Range(self.n_ions * self.n_cells_in_sc) :
               ScIonR(self)[J] = VecMat(IonOfCell(self, J), Adj(self.sc_matrix))

\* C16 happens: a matrix was assembled over two cells whose phases differ,
\* from pairs with different numbers of images
C16_Witness ==
    /\ Len(last.solver_in) > 0
    /\ self # NoObject
    /\ self.n_cells_in_sc >= 2
    /\ last.arg[1] # <<0, 0, 0>>
    /\ self.n_sc_images[0][1] # self.n_sc_images[0][2]
    /\ ~CIsNaN(last.solver_in[1][0][0])

\* offsets[k]: the triplet at index k of the row-major enumeration of [-l, l]^3
OffsetAt(k, l) ==
    <<(k \div ((2 * l + 1) * (2 * l + 1))) - l, ((k \div (2 * l + 1)) % (2 * l + 1)) - l,
      (k % (2 * l + 1)) - l>>

\* exp(2*pi*i*t/4) for an integer t
ExpQuarter(t) == CInt(<<1, 0, -1, 0>>[(t % 4) + 1], <<0, 1, 0, -1>>[(t % 4) + 1])

\* exp(2*pi*i * q . (sc_matrix^T . offsets[k] + cell_origins[c])), with q in
\* quarters
PhaseFormula(obj, qpt, c, k) ==
    ExpQuarter(Dot(qpt, VAdd([a \in 1 .. 3 |->
                                 SumOver([b \in Range(3) |->
                                             obj.sc_matrix[b + 1][a] * OffsetAt(k, lim)[b + 1]], 3)],
                             obj.cell_origins[c])))

\* The phase table of the formula, evaluated once for the object of every
\* input file that gets as far as the loop and every q-point
PhaseFormulaTable ==
    Array([f \in DOMAIN LoopTable |->
             [inputs |-> LoopTable[f].inputs,
              phases |-> Array([qpt \in QSet |->
                            [c \in Range(TableObject(f).n_cells_in_sc) |->
                                [k \in Offsets |-> PhaseFormula(TableObject(f), qpt, c, k)]]])]])

\* the q-point the loop of the last call worked on when it ended
LastQpt == last.arg[IF last.failed_q >= 0 THEN last.failed_q + 1 ELSE Len(last.arg)]

\* C17: the phase table that calculate_fine_phonons holds for a q-point has
\* shape (n_cells, (2*lim+1)^3), and its entry [c, k] is
\* exp(2*pi*i * q . (sc_matrix^T . offsets[k] + cell_origins[c])), where
\* offsets[k] is offset number k of the list that the image table indexes.
C17_PhaseTable ==
    Len(last.solver_in) > 0 /\ self # NoObject =>
        LET phases == Lookup(LoopTable, LoopInputs(self)).loops[solver][last.arg].phases
        IN  /\ DOMAIN phases = Range(self.n_cells_in_sc)
            /\ \A c \in DOMAIN phases : DOMAIN phases[c] = Offsets
            /\ phases = Lookup(PhaseFormulaTable, LoopInputs(self)).phases[LastQpt]

\* C17 happens: the phases were computed at a q-point that is not zero, for a
\* supercell matrix that is not symmetric
C17_Witness ==
    /\ Len(last.solver_in) > 0
    /\ self # NoObject
    /\ LastQpt = <<1, 0, 0>>
    /\ self.sc_matrix # Transpose(self.sc_matrix)

\* the largest image limit for which the list of offsets is examined
MaxLim == 2

\* the lists _calculate_supercell_image_r(l) returns, evaluated once per limit
ImageRTable == Array([l \in 1 .. MaxLim |-> CalculateSupercellImageR(l)])

\* sc_image_r holds (2*l+1)^3 triplets, the triplet (x, y, z) of [-l, l]^3 at
\* index (x+l)*(2*l+1)^2 + (y+l)*(2*l+1) + (z+l), and no triplet twice
RowMajor(sc_image_r, l) ==
    /\ DOMAIN sc_image_r = Range((2 * l + 1) * (2 * l + 1) * (2 * l + 1))
    /\ \A x \in -l .. l : \A y \in -l .. l : \A z \in -l .. l :
           sc_image_r[(x + l) * (2 * l + 1) * (2 * l + 1) + (y + l) * (2 * l + 1) + (z + l)]
               = <<x, y, z>>
    /\ \A k \in DOMAIN sc_image_r :
           /\ sc_image_r[k] \in (-l .. l) \X (-l .. l) \X (-l .. l)
           /\ sc_image_r[k] = OffsetAt(k, l)
           /\ \A k2 \in DOMAIN sc_image_r : sc_image_r[k2] = sc_image_r[k] => k2 = k

\* RowMajor of the list of every limit, evaluated once
RowMajorTable == Array([l \in 1 .. MaxLim |-> RowMajor(ImageRTable[l], l)])

\* C18: whenever calculate_fine_phonons has been called, and so has called
\* _calculate_supercell_image_r: for every limit l from 1 to MaxLim, the limit
\* lim of the code among them, _calculate_supercell_image_r(l) returns (2*l+1)^3 triplets, every triplet of
\* [-l, l]^3 exactly once, in row-major order: (x, y, z) is at index
\* (x+l)*(2*l+1)^2 + (y+l)*(2*l+1) + (z+l).
C18_RowMajorOffsets ==
    CallMade => \A l \in 1 .. MaxLim : RowMajorTable[l]

\* C18 happens: the image table was built from the list, and an offset other
\* than (0, 0, 0), which is at index 62 for lim = 2, was selected from it
C18_Witness ==
    /\ TableBuilt
    /\ \E pair \in Pairs : \E k \in Listed(self, pair[1], pair[2]) :
           k # 62 /\ ImageRTable[lim][k] # <<0, 0, 0>>

\* the offset indices k that the test of the loop over k selects for the pair
\* (i, J) of obj
Selected(obj) ==
    LET ws_list == WsList(obj)
        sc_image_cart == ScImageCart(obj, lim)
        sc_ion_cart == ScIonCart(obj, lim)
        den == ScIonDen(obj)
    IN  Array([i \in Range(obj.n_ions) |-> [J \in Range(obj.n_ions * obj.n_cells_in_sc) |->
            {k \in Offsets :
                InWsCell(ws_list, Dist(sc_ion_cart, sc_image_cart, den, i, J, k), den)}]])

\* Selected, evaluated once for the object of every input file for which
\* _calculate_supercell_images completes
SelectedTable ==
    Array([f \in DOMAIN ImageTable |->
             [inputs   |-> ImageTable[f].inputs,
              selected |-> Selected(InitAttributes(Files[f], <<>>))]])

\* obj with every entry of sc_image_i at a position >= n_sc_images[i, J]
\* replaced by the index 87 of the offset (1, 0, 0)
Padded(obj) ==
    [obj EXCEPT !.sc_image_i =
        Array([i \in DOMAIN obj.sc_image_i |-> [J \in DOMAIN obj.sc_image_i[i] |->
            [p \in DOMAIN obj.sc_image_i[i][J] |->
                IF p < obj.n_sc_images[i][J] THEN obj.sc_image_i[i][J][p] ELSE 87]]])]

\* The matrices assembled from the padded table, evaluated once for the object
\* of every input file that gets as far as the loop and every q-point
PaddedTable ==
    Array([f \in DOMAIN LoopTable |->
             [inputs |-> LoopTable[f].inputs,
              mats   |-> Array([qpt \in QSet |->
                            DynMat(Padded(TableObject(f)), PhasesOf(TableObject(f), qpt))])]])

\* C19: for every pair (i, J) of the table that _calculate_supercell_images
\* left, n_sc_images[i, J] is the number of selected offsets, and
\* sc_image_i[i, J, 0 .. n_sc_images[i, J] - 1] are the selected offsets, each in
\* 0 .. (2*lim+1)^3 - 1, in strictly increasing order; and the matrices handed
\* to the solver do not depend on the entries at positions >= n_sc_images[i, J].
C19_TableInEnumerationOrder ==
    /\ TableBuilt =>
           \A pair \in Pairs :
               LET count == self.n_sc_images[pair[1]][pair[2]]
                   indices == self.sc_image_i[pair[1]][pair[2]]
                   selected == Lookup(SelectedTable, ImageInputs(self)).selected[pair[1]][pair[2]]
               IN  /\ count = Cardinality(selected)
                   /\ \A p \in Range(count) :
                          /\ indices[p] \in Offsets
                          /\ p > 0 => indices[p - 1] < indices[p]
                   /\ {indices[p] : p \in Range(count)} = selected
    /\ Len(last.solver_in) > 0 /\ self # NoObject =>
           \A q \in 1 .. Len(last.solver_in) :
               last.solver_in[q] = Lookup(PaddedTable, LoopInputs(self)).mats[last.arg[q]]

\* C19 happens: the table was built with a pair that has several images and
\* entries left over, and a matrix was assembled from it at a q-point where
\* the phase of offset 0 differs from the phase of offset 87
C19_Witness ==
    /\ TableBuilt
    /\ Len(last.solver_in) > 0
    /\ last.arg[1] = <<1, 0, 0>>
    /\ \E pair \in Pairs :
           /\ self.n_sc_images[pair[1]][pair[2]] >= 2
           /\ self.n_sc_images[pair[1]][pair[2]] < Cardinality(Offsets)
           /\ self.sc_image_i[pair[1]][pair[2]][0] < self.sc_image_i[pair[1]][pair[2]][1]
           /\ self.force_constants.mag[pair[2] \div self.n_ions][3 * pair[1]][3 * (pair[2] % self.n_ions)] # 0

\* C20: a call that runs _calculate_supercell_images gets through it: the
\* call does not end with the IndexError of the position buffer, and the object
\* it leaves has n_sc_images[i, J] for every ion i and every supercell ion J in
\* 0 .. n_ions*n_cells_in_sc - 1, whatever the number of supercell ions.
C20_ImageEnumerationCompletes ==
    CallMade /\ last.ran_images =>
        /\ last.status # "IndexError"
        /\ self # NoObject =>
               /\ HasAttr(self, "n_sc_images")
               /\ DOMAIN self.n_sc_images = Range(self.n_ions)
               /\ \A i \in Range(self.n_ions) :
                      DOMAIN self.n_sc_images[i] = Range(self.n_ions * self.n_cells_in_sc)

\* C21: with lim = 2 the int8 storage of the image table does not overflow. No
\* offset index (at most 124) and no count (at most 125) is changed by being
\* stored, and in every table that is built each count is in 0 .. 127 and is the
\* number of selected offsets, and each index that the assembly reads is in
\* 0 .. 127 and is the selected offset of its position in the enumeration.
C21_Int8StorageFits ==
    TableBuilt =>
        /\ \A k \in Offsets : k <= 124 /\ Int8(k) = k
        /\ Cardinality(Offsets) = 125 /\ Int8(Cardinality(Offsets)) = Cardinality(Offsets)
        /\ \A pair \in Pairs :
               LET count == self.n_sc_images[pair[1]][pair[2]]
                   indices == self.sc_image_i[pair[1]][pair[2]]
                   selected == Lookup(SelectedTable, ImageInputs(self)).selected[pair[1]][pair[2]]
               IN  /\ count \in 0 .. 127
                   /\ count = Cardinality(selected)
                   /\ \A p \in Range(count) :
                          /\ indices[p] \in 0 .. 127
                          /\ indices[p] \in selected
                          /\ Cardinality({k \in selected : k < indices[p]}) = p

\* C21 happens: a table was built that holds an offset index in the upper half
\* of the range of int8, which storage one bit narrower would not hold
C21_Witness ==
    /\ TableBuilt
    /\ \E pair \in Pairs : \E p \in Range(self.n_sc_images[pair[1]][pair[2]]) :
           self.sc_image_i[pair[1]][pair[2]][p] >= 64

====
